---- MODULE Spec2Model ----
(***************************************************************************)
(* Model of the GreenOps backend (src/server.js): the region-scoring and   *)
(* plan-generation engine behind POST /api/plan, and the deployment        *)
(* history kept by POST /api/deploy and read by GET /api/analytics.        *)
(*                                                                         *)
(* Numbers.  JavaScript doubles are modelled as exact numbers.  A score    *)
(* is a fraction [n |-> numerator, d |-> denominator] with d > 0; costs    *)
(* are held in hundredths of a dollar and weights in thousandths, which    *)
(* leaves every quotient the code computes unchanged.  NaN and the         *)
(* infinities are outside the model.                                       *)
(*                                                                         *)
(* Strings.  A component name is a sequence of one-character strings, so   *)
(* that lower-casing and the regular-expression replacement act on it      *)
(* character by character.                                                 *)
(***************************************************************************)
EXTENDS Integers, Sequences, FiniteSets, TLC

VARIABLES
    apiKeySet,      \* ELECTRICITYMAPS_API_KEY is non-empty
    pc,             \* position of the /api/plan handler
    req,            \* body of the planning request being handled
    calls,          \* the six getCarbonIntensityForRegion calls of the request
    carbonResults,  \* what Promise.all resolved to
    response,       \* what res.status(..).json(..) sent
    args,           \* arguments of a helper function under test
    result,         \* its return value
    fnPc,           \* "ready" before the helper is applied, "returned" after
    deployEnabled,  \* ENABLE_CIVO_DEPLOY
    DEPLOYMENTS_HISTORY, \* the in-memory list of deployment records
    deploys,        \* the deploy requests received, each with its handler's position
    analytics       \* what the last GET /api/analytics answered

vars == <<apiKeySet, pc, req, calls, carbonResults, response, args, result, fnPc,
          deployEnabled, DEPLOYMENTS_HISTORY, deploys, analytics>>

deployVars == <<deployEnabled, DEPLOYMENTS_HISTORY, deploys, analytics>>

planVars == <<apiKeySet, pc, req, calls, carbonResults, response>>

fnVars == <<args, result, fnPc>>

\* ------------------------------------------------------------------ bounds

\* Longest component list given to generateKubernetesYaml.
MaxComponents == 2

\* Longest component list given to calcReplicas (its doubling is twice that).
MaxReplicaComps == 5

\* Longest vector given to normalizeScores, and its entries' magnitude.
MaxVecLen == 4

MaxVecVal == 3

\* Longest component list of a planning request that is sized.
MaxPlanComps == 3

\* Most deploy requests received in one run.
MaxDeploys == 3

\* ------------------------------------------------------------ region data

REGIONS ==
    << [id |-> "LON1", defaultCarbonIntensity |-> 260, baseCost |-> 24, geoGroup |-> "eu"],
       [id |-> "FRA1", defaultCarbonIntensity |-> 210, baseCost |-> 26, geoGroup |-> "eu"],
       [id |-> "NYC1", defaultCarbonIntensity |-> 390, baseCost |-> 23, geoGroup |-> "us-east"],
       [id |-> "SFO1", defaultCarbonIntensity |-> 380, baseCost |-> 27, geoGroup |-> "us-west"],
       [id |-> "BLR1", defaultCarbonIntensity |-> 650, baseCost |-> 18, geoGroup |-> "ap-south"],
       [id |-> "SGP1", defaultCarbonIntensity |-> 510, baseCost |-> 21, geoGroup |-> "ap-southeast"] >>

RegionIdx == DOMAIN REGIONS

\* The region ids that have an Electricity Maps zone.
REGION_ZONE_MAP == {"LON1", "FRA1", "NYC1", "SFO1", "BLR1", "SGP1"}

\* ---------------------------------------------------------------- numbers

Frac(a, b) == [n |-> a, d |-> b]

\* Sign of a - b.  Fractions over one denominator are compared by their
\* numerators (the scores of one request all share theirs).
FracCmp(a, b) == IF a.d = b.d THEN a.n - b.n ELSE a.n * b.d - b.n * a.d

\* A sequence given as a function, as the tuple of its values.
AsSeq(f) == f \o << >>

SeqMin(v) == CHOOSE x \in {v[i] : i \in DOMAIN v} : \A j \in DOMAIN v : x <= v[j]

SeqMax(v) == CHOOSE x \in {v[i] : i \in DOMAIN v} : \A j \in DOMAIN v : x >= v[j]

\* ------------------------------------------------------------- normalizer

\* The normalizer without its negation.
normalizeScoresNoInvert(values, invert) ==
    IF Len(values) = 0 THEN << >>
    ELSE LET min == SeqMin(values)
             max == SeqMax(values)
         IN  IF max = min
             THEN AsSeq([i \in DOMAIN values |-> Frac(7, 10)])
             ELSE AsSeq([i \in DOMAIN values |-> Frac(values[i] - min, max - min)])

normalizeScores(values, invert) ==
    IF Len(values) = 0 THEN << >>
    ELSE LET v == AsSeq(IF invert THEN [i \in DOMAIN values |-> 0 - values[i]] ELSE values)
             min == SeqMin(v)
             max == SeqMax(v)
         IN  IF max = min
             THEN AsSeq([i \in DOMAIN v |-> Frac(7, 10)])
             ELSE AsSeq([i \in DOMAIN v |-> Frac(v[i] - min, max - min)])

\* ---------------------------------------------------------------- latency

AffinityMap(userRegion) ==
    CASE userRegion = "ap-south" -> "ap-south"
      [] userRegion = "eu-west"  -> "eu"
      [] userRegion = "us-east"  -> "us-east"
      [] userRegion = "us-west"  -> "us-west"
      [] OTHER                   -> "global"

StartsWith(g, prefix) ==
    \/ prefix = "us" /\ g \in {"us-east", "us-west"}
    \/ prefix = "ap" /\ g \in {"ap-south", "ap-southeast"}

\* Hundredths: 0.6 is 60.
latencyBaseScore(userRegion, region) ==
    LET target == AffinityMap(userRegion)
        g == region.geoGroup
    IN  CASE target = "global" -> 60
          [] target = "ap-south" /\ g = "ap-south" -> 100
          [] target = "ap-south" /\ g = "ap-southeast" -> 85
          [] target = "ap-south" /\ g = "eu" -> 60
          [] target = "ap-south" /\ StartsWith(g, "us") -> 45
          [] target = "eu" /\ g = "eu" -> 100
          [] target = "eu" /\ g = "us-east" -> 80
          [] target = "eu" /\ g = "us-west" -> 70
          [] target = "eu" /\ StartsWith(g, "ap") -> 55
          [] target = "us-east" /\ g = "us-east" -> 100
          [] target = "us-east" /\ g = "eu" -> 80
          [] target = "us-east" /\ g = "us-west" -> 75
          [] target = "us-east" /\ StartsWith(g, "ap") -> 50
          [] target = "us-west" /\ g = "us-west" -> 100
          [] target = "us-west" /\ g = "us-east" -> 80
          [] target = "us-west" /\ g = "ap-southeast" -> 70
          [] target = "us-west" /\ g = "eu" -> 60
          [] target = "us-west" /\ g = "ap-south" -> 50
          [] OTHER -> 60

\* ---------------------------------------------------------------- weights

\* Weights under which max-green counts carbon alone.
getWeightsCarbonOnly(strategy, latencyTolerance) ==
    CASE strategy = "max-green" -> [co2 |-> 1000, latency |-> 0, cost |-> 0, sum |-> 1000]
      [] strategy = "budget"    -> [co2 |-> 150, latency |-> 250, cost |-> 600, sum |-> 1000]
      [] OTHER                  -> [co2 |-> 340, latency |-> 330, cost |-> 330, sum |-> 1000]

\* Thousandths before the division by their sum: a weight is field / sum.
getWeights(strategy, latencyTolerance) ==
    LET base == CASE strategy = "max-green" -> [co2 |-> 60, lat |-> 25, cost |-> 15]
                  [] strategy = "budget"    -> [co2 |-> 15, lat |-> 25, cost |-> 60]
                  [] OTHER                  -> [co2 |-> 34, lat |-> 33, cost |-> 33]
        mul == CASE latencyTolerance = "strict"  -> [co2 |-> 9, lat |-> 12, cost |-> 9]
                 [] latencyTolerance = "relaxed" -> [co2 |-> 11, lat |-> 7, cost |-> 11]
                 [] OTHER                        -> [co2 |-> 10, lat |-> 10, cost |-> 10]
        wCo2 == base.co2 * mul.co2
        wLat == base.lat * mul.lat
        wCost == base.cost * mul.cost
    IN  [co2 |-> wCo2, latency |-> wLat, cost |-> wCost, sum |-> wCo2 + wLat + wCost]

\* A policy that rejects a strategy it does not know.
getWeightsCallRejecting(strategy, latencyTolerance) ==
    IF strategy \in {"max-green", "budget", "balanced"}
    THEN [threw |-> FALSE, weights |-> getWeights(strategy, latencyTolerance)]
    ELSE [threw |-> TRUE, weights |-> << >>]

\* A call of getWeights as its caller sees it.  The function holds no throw
\* statement and nothing in it can throw on a string: the switch ends in
\* a default label, so the call returns for every strategy.
getWeightsCall(strategy, latencyTolerance) ==
    [threw |-> FALSE, weights |-> getWeights(strategy, latencyTolerance)]

\* --------------------------------------------------------------- replicas

runtimeTypes == {"api-gateway", "frontend", "container", "function"}

\* A filter that keeps everything.
FilterNothing(s, types) == s

RECURSIVE Filter(_, _)
Filter(s, types) ==
    IF s = << >> THEN << >>
    ELSE IF Head(s).type \in types
         THEN <<Head(s)>> \o Filter(Tail(s), types)
         ELSE Filter(Tail(s), types)

countRuntimeComponents(components) == Len(Filter(components, runtimeTypes))

\* Math.floor in place of Math.ceil.
FloorHalf(k) == k \div 2

CeilHalf(k) == (k + 1) \div 2

Max2(a, b) == IF a >= b THEN a ELSE b

calcReplicas(components, latencyTolerance) ==
    LET runtimeCount == countRuntimeComponents(components)
        base == Max2(1, CeilHalf(runtimeCount))
        bumped == IF latencyTolerance = "strict" /\ runtimeCount > 1
                  THEN base + 1 ELSE base
    IN  IF bumped > 4 THEN 4 ELSE bumped

\* --------------------------------------------------------------- manifest

toLowerCase(c) ==
    CASE c = "A" -> "a"
      [] c = "B" -> "b"
      [] c = "Z" -> "z"
      [] OTHER   -> c

\* The characters the class [a-z0-9-] matches.
SafeChars ==
    {"a", "b", "c", "d", "e", "f", "g", "h", "i", "j", "k", "l", "m",
     "n", "o", "p", "q", "r", "s", "t", "u", "v", "w", "x", "y", "z",
     "0", "1", "2", "3", "4", "5", "6", "7", "8", "9", "-"}

\* name.toLowerCase().replace(/[^a-z0-9-]/g, "-")
Sanitize(name) ==
    [i \in DOMAIN name |->
        IF toLowerCase(name[i]) \in SafeChars THEN toLowerCase(name[i]) ELSE "-"]

ServiceName == <<"s", "e", "r", "v", "i", "c", "e">>

\* Sanitize(name) || "service"
safeName(comp) ==
    IF Sanitize(comp.name) = << >> THEN ServiceName ELSE Sanitize(comp.name)

NamespaceBlock(planId) == [kind |-> "Namespace", name |-> "greenops-app", plan |-> planId]

DeploymentBlock(comp, planId, regionId, instanceClass, replicas) ==
    [kind          |-> "Deployment",
     name          |-> safeName(comp),
     plan          |-> planId,
     replicas      |-> replicas,
     selector      |-> safeName(comp),
     containerPort |-> 4000,
     env           |-> [GREENOPS_PLAN_ID        |-> planId,
                        GREENOPS_REGION         |-> regionId,
                        GREENOPS_INSTANCE_CLASS |-> instanceClass]]

ServiceBlock(gatewayName) ==
    [kind       |-> "Service",
     name       |-> gatewayName \o <<"-", "s", "v", "c">>,
     selector   |-> gatewayName,
     targetPort |-> 4000]

\* The component the Service is for: the first typed api-gateway, else the
\* first runtime component.
GatewayComponent(runtimeComponents) ==
    LET gw == Filter(runtimeComponents, {"api-gateway"})
    IN  IF gw # << >> THEN Head(gw) ELSE Head(runtimeComponents)

\* gatewayName: sanitized, with no "service" default.
gatewayNameOf(runtimeComponents) == Sanitize(GatewayComponent(runtimeComponents).name)

\* The manifest as its sequence of YAML documents.
generateKubernetesYaml(planId, regionId, instanceClass, replicas, components) ==
    LET runtimeComponents == Filter(components, runtimeTypes)
        deployments ==
            [i \in DOMAIN runtimeComponents |->
                DeploymentBlock(runtimeComponents[i], planId, regionId,
                                instanceClass, replicas)]
    IN  IF Len(runtimeComponents) = 0
        THEN <<NamespaceBlock(planId)>>
        ELSE <<NamespaceBlock(planId)>> \o deployments \o
             (IF gatewayNameOf(runtimeComponents) # << >>
              THEN <<ServiceBlock(gatewayNameOf(runtimeComponents))>>
              ELSE << >>)

\* ---------------------------------------------------------- carbon source

FailureKinds == {"network-error", "non-ok", "bad-json", "no-number"}

\* What the provider may answer with when it reports a number.
LiveValues == {100, 101, 118}

\* What one fetch may end in: the fetch rejects, the status is not ok,
\* the body is no JSON, the body has no numeric carbonIntensity, or it has.
ProviderOutcomes ==
    {[kind |-> k, ci |-> 0] : k \in FailureKinds} \cup
    {[kind |-> "number", ci |-> v] : v \in LiveValues}

NoReading == [value |-> 0, source |-> "none"]

FallbackReading(region) ==
    [value |-> region.defaultCarbonIntensity, source |-> "fallback-static"]

\* A provider value under the fallback's tag.
LiveReadingMistagged(ci) == [value |-> ci, source |-> "fallback-static"]

LiveReading(ci) == [value |-> ci, source |-> "electricitymaps"]

\* getCarbonIntensityForRegion up to its first await: without a key or a
\* zone it returns at once, otherwise the fetch is in flight.
getCarbonIntensityStart(region, keySet) ==
    IF ~keySet \/ region.id \notin REGION_ZONE_MAP
    THEN [st |-> "done", reading |-> FallbackReading(region)]
    ELSE [st |-> "pending", reading |-> NoReading]

\* The same without the typeof test on carbonIntensity.
getCarbonIntensitySettleNoTypeCheck(region, outcome) ==
    CASE outcome.kind = "network-error" -> FallbackReading(region)
      [] outcome.kind = "non-ok"        -> FallbackReading(region)
      [] outcome.kind = "bad-json"      -> FallbackReading(region)
      [] OTHER                          -> [value |-> outcome.ci, source |-> "electricitymaps"]

\* getCarbonIntensityForRegion from the fetch's settling to its return.
getCarbonIntensitySettle(region, outcome) ==
    CASE outcome.kind = "network-error" -> FallbackReading(region)
      [] outcome.kind = "non-ok"        -> FallbackReading(region)
      [] outcome.kind = "bad-json"      -> FallbackReading(region)
      [] outcome.kind = "no-number"     -> FallbackReading(region)
      [] OTHER                          -> LiveReading(outcome.ci)

\* REGIONS.map((r) => getCarbonIntensityForRegion(r)): every call is made
\* before the handler awaits.
StartCalls(keySet) ==
    [i \in RegionIdx |-> getCarbonIntensityStart(REGIONS[i], keySet)]

NoCalls == [i \in RegionIdx |-> [st |-> "idle", reading |-> NoReading]]

\* Promise.race in place of Promise.all: the first call to return resumes
\* the handler.
AnySettled(cs) == \E i \in RegionIdx : cs[i].st = "done"

\* Promise.all resolves when every call has returned.
AllSettled(cs) == \A i \in RegionIdx : cs[i].st = "done"

\* ... to the readings in the order of the calls.
JoinResults(cs) == AsSeq([i \in RegionIdx |-> cs[i].reading])

\* ---------------------------------------------------------------- planner

Default(x, d) == IF x = "undefined" THEN d ELSE x

\* components = [] when the field is absent; Array.isArray otherwise.
ComponentsOf(body) == IF body.kind = "missing" THEN << >> ELSE body.components

\* The validation without its length test.
ValidComponentsNoLength(body) == body.kind # "other"

ValidComponents(body) == body.kind # "other" /\ Len(ComponentsOf(body)) # 0

Overall(rs, w) ==
    Frac(rs.co2.n * w.co2 * rs.latency.d * rs.cost.d
           + rs.latency.n * w.latency * rs.co2.d * rs.cost.d
           + rs.cost.n * w.cost * rs.co2.d * rs.latency.d,
         rs.co2.d * rs.latency.d * rs.cost.d * w.sum)

\* Array.prototype.sort is stable: an element goes behind every element
\* that does not compare after it under (a, b) => b.overall - a.overall.
\* An unstable sort: an element goes in front of its equals.
RECURSIVE InsertDescUnstable(_, _)
InsertDescUnstable(s, x) ==
    IF s = << >> THEN <<x>>
    ELSE IF FracCmp(Head(s).overall, x.overall) > 0
         THEN <<Head(s)>> \o InsertDescUnstable(Tail(s), x)
         ELSE <<x>> \o s

RECURSIVE InsertDesc(_, _)
InsertDesc(s, x) ==
    IF s = << >> THEN <<x>>
    ELSE IF FracCmp(Head(s).overall, x.overall) >= 0
         THEN <<Head(s)>> \o InsertDesc(Tail(s), x)
         ELSE <<x>> \o s

RECURSIVE SortDesc(_)
SortDesc(s) ==
    IF s = << >> THEN << >>
    ELSE InsertDesc(SortDesc(SubSeq(s, 1, Len(s) - 1)), s[Len(s)])

strategies == <<"balanced", "max-green", "budget">>

\* The classes of max-green and budget exchanged.
InstanceClassSwapped(strategy) ==
    CASE strategy = "max-green" -> "standard-small"
      [] strategy = "budget"    -> "eco-small"
      [] OTHER                  -> "standard-medium"

InstanceClass(strategy) ==
    CASE strategy = "max-green" -> "eco-small"
      [] strategy = "budget"    -> "standard-small"
      [] OTHER                  -> "standard-medium"

RegionScores(results, userRegion) ==
    LET carbonValues == AsSeq([i \in RegionIdx |-> results[i].value])
        costValues == AsSeq([i \in RegionIdx |-> REGIONS[i].baseCost])
        co2Scores == normalizeScores(carbonValues, TRUE)
        costScores == normalizeScores(costValues, TRUE)
    IN  AsSeq([i \in RegionIdx |->
            [region  |-> [id |-> REGIONS[i].id,
                          liveCarbonIntensity |-> carbonValues[i],
                          carbonSource |-> results[i].source],
             co2     |-> co2Scores[i],
             cost    |-> costScores[i],
             latency |-> Frac(latencyBaseScore(userRegion, REGIONS[i]), 100)]])

ScoredRegions(regionScores, weights) ==
    AsSeq([i \in DOMAIN regionScores |->
        [region  |-> regionScores[i].region,
         co2     |-> regionScores[i].co2,
         cost    |-> regionScores[i].cost,
         latency |-> regionScores[i].latency,
         overall |-> Overall(regionScores[i], weights)]])

\* One pass of strategies.forEach; the rounded scores, labels and notes
\* of the plan are left out.
PlanFor(strategy, regionScores, latencyTolerance, replicas, components) ==
    LET weights == getWeights(strategy, latencyTolerance)
        best == SortDesc(ScoredRegions(regionScores, weights))[1]
    IN  [id |-> strategy,
         carbonIntensity |-> [value_gCo2PerKwh |-> best.region.liveCarbonIntensity,
                              source |-> best.region.carbonSource],
         civo |-> [region        |-> best.region.id,
                   instanceClass |-> InstanceClass(strategy),
                   replicas      |-> replicas],
         kubernetesYaml |->
             generateKubernetesYaml(strategy, best.region.id,
                                    InstanceClass(strategy), replicas, components)]

BuildPlans(results, body) ==
    LET userRegion == Default(body.userRegion, "global")
        latencyTolerance == Default(body.latencyTolerance, "balanced")
        regionScores == RegionScores(results, userRegion)
        recommendedReplicas == calcReplicas(ComponentsOf(body), latencyTolerance)
    IN  AsSeq([k \in DOMAIN strategies |->
            PlanFor(strategies[k], regionScores, latencyTolerance,
                    recommendedReplicas, ComponentsOf(body))])

NoResponse == [status |-> 0, plans |-> << >>]

\* --------------------------------------------------------------- requests

Comp(name, type) == [name |-> name, type |-> type]

ApiComponent == Comp(<<"a", "p", "i">>, "api-gateway")

DbComponent == Comp(<<"d", "b">>, "database")

Body(kind, components, userRegion, latencyTolerance) ==
    [kind |-> kind, components |-> components,
     userRegion |-> userRegion, latencyTolerance |-> latencyTolerance]

\* Bodies whose components are absent, an empty list, or no list at all
\* (kind "other": a value with entries that Array.isArray rejects).
InvalidBodies ==
    { Body("missing", << >>, "undefined", "undefined"),
      Body("array", << >>, "eu-west", "strict"),
      Body("other", <<ApiComponent>>, "undefined", "undefined") }

ValidBodies ==
    { Body("array", cs, u, t) :
        cs \in {<<ApiComponent, DbComponent>>},
        u \in {"eu-west", "undefined"},
        t \in {"strict", "undefined"} }

PlanBodies == InvalidBodies \cup ValidBodies

NoBody == Body("none", << >>, "undefined", "undefined")

\* ---------------------------------------------------------------- actions
\* Planning requests share no mutable state, so one request at a time is
\* followed from its arrival to its response.

\* POST /api/plan up to its await: validation and, for a valid body, the
\* six calls.
PlanRequest(body) ==
    /\ pc \in {"idle", "responded"}
    /\ req' = body
    /\ carbonResults' = << >>
    /\ IF ~ValidComponents(body)
       THEN /\ response' = [status |-> 400, plans |-> << >>]
            /\ calls' = NoCalls
            /\ pc' = "responded"
       ELSE /\ response' = NoResponse
            /\ calls' = StartCalls(apiKeySet)
            /\ pc' = "awaiting"
    /\ UNCHANGED <<apiKeySet, fnVars, deployVars>>

\* The fetch of call i settles and the call returns its reading.
FetchSettles(i) ==
    /\ pc = "awaiting"
    /\ calls[i].st = "pending"
    /\ \E outcome \in ProviderOutcomes :
          calls' = [calls EXCEPT ![i] =
                       [st |-> "done",
                        reading |-> getCarbonIntensitySettle(REGIONS[i], outcome)]]
    /\ UNCHANGED <<apiKeySet, pc, req, carbonResults, response, fnVars, deployVars>>

\* The provider never completes its answer to call i (no response, or a body
\* that never ends): fetch is given no timeout or abort signal, so the
\* call stays at its await.
FetchHangs(i) ==
    /\ pc = "awaiting"
    /\ calls[i].st = "pending"
    /\ calls' = [calls EXCEPT ![i] = [st |-> "hung", reading |-> NoReading]]
    /\ UNCHANGED <<apiKeySet, pc, req, carbonResults, response, fnVars, deployVars>>

\* POST /api/plan after its await: scoring, the three plans, the response.
PlanResume ==
    /\ pc = "awaiting"
    /\ AllSettled(calls)
    /\ carbonResults' = JoinResults(calls)
    /\ response' = [status |-> 200, plans |-> BuildPlans(JoinResults(calls), req)]
    /\ pc' = "responded"
    /\ UNCHANGED <<apiKeySet, req, calls, fnVars, deployVars>>

FnIdle == args = << >> /\ result = << >> /\ fnPc = "off"

NoAnalytics == [status |-> 0, totalDeployments |-> 0, deployments |-> << >>]

\* No deploy request has been received; deployment is a dry run.
DeployIdle ==
    /\ deployEnabled = FALSE
    /\ DEPLOYMENTS_HISTORY = << >>
    /\ deploys = << >>
    /\ analytics = NoAnalytics

Init ==
    /\ apiKeySet \in BOOLEAN
    /\ pc = "idle"
    /\ req = NoBody
    /\ calls = NoCalls
    /\ carbonResults = << >>
    /\ response = NoResponse
    /\ FnIdle
    /\ DeployIdle

Next ==
    \/ \E body \in PlanBodies : PlanRequest(body)
    \/ \E i \in RegionIdx : FetchSettles(i)
    \/ \E i \in RegionIdx : FetchHangs(i)
    \/ PlanResume

Spec == Init /\ [][Next]_vars

\* The event loop runs what can run: a fetch that has not hung settles, and
\* once every call has returned the handler resumes and answers (weak
\* fairness of PlanResume, written with its enabling condition).  Nothing
\* makes a hung fetch settle.
FairSpec ==
    /\ Spec
    /\ \A i \in RegionIdx : WF_vars(FetchSettles(i))
    /\ (pc = "awaiting" /\ AllSettled(calls)) ~> (pc = "responded")

\* ------------------------------------------- the planner on wider inputs

SeqsUpTo(S, k) == UNION {[1..m -> S] : m \in 0..k}

PlanIdle ==
    /\ apiKeySet = FALSE
    /\ pc = "idle"
    /\ req = NoBody
    /\ calls = NoCalls
    /\ carbonResults = << >>
    /\ response = NoResponse

Affinities == {"ap-south", "eu-west", "us-east", "us-west", "global", "mars"}

Tolerances == {"strict", "balanced", "relaxed", "lenient"}

\* A valid request whose six calls have all returned, each with a live
\* value or with its fallback.
InitAwaiting ==
    /\ apiKeySet = TRUE
    /\ pc = "awaiting"
    /\ req \in {Body("array", <<ApiComponent>>, u, t) : u \in Affinities, t \in Tolerances}
    /\ \E o \in [RegionIdx -> {x \in ProviderOutcomes : x.kind \in {"no-number", "number"}}] :
          calls = [i \in RegionIdx |->
                      [st |-> "done",
                       reading |-> getCarbonIntensitySettle(REGIONS[i], o[i])]]
    /\ carbonResults = << >>
    /\ response = NoResponse
    /\ FnIdle
    /\ DeployIdle

NextAssemble == PlanResume

SpecAssemble == InitAwaiting /\ [][NextAssemble]_vars

\* ------------------------------------------------- generateKubernetesYaml

Names == { << >>, <<"A", "p", "i">>, <<"m", "_", "1">>, <<"w", "-", "b">> }

ComponentTypes == runtimeTypes \cup {"database"}

Components == {Comp(nm, ty) : nm \in Names, ty \in ComponentTypes}

InitYaml ==
    /\ PlanIdle
    /\ DeployIdle
    /\ args \in { [planId |-> p, regionId |-> r, instanceClass |-> "eco-small",
                   replicas |-> k, components |-> cs] :
                     p \in {"max-green", "budget"}, r \in {"LON1", "SGP1"},
                     k \in {1, 4}, cs \in SeqsUpTo(Components, MaxComponents) }
    /\ result = << >>
    /\ fnPc = "ready"

CallGenerateYaml ==
    /\ fnPc = "ready"
    /\ result' = generateKubernetesYaml(args.planId, args.regionId,
                                        args.instanceClass, args.replicas,
                                        args.components)
    /\ fnPc' = "returned"
    /\ UNCHANGED <<args, planVars, deployVars>>

NextYaml == CallGenerateYaml

SpecYaml == InitYaml /\ [][NextYaml]_vars

\* ----------------------------------------------------------- calcReplicas

InitReplicas ==
    /\ PlanIdle
    /\ DeployIdle
    /\ args \in { [components |-> cs, latencyTolerance |-> t] :
                     cs \in SeqsUpTo({Comp(<<"c">>, ty) : ty \in ComponentTypes},
                                     MaxReplicaComps),
                     t \in Tolerances }
    /\ result = << >>
    /\ fnPc = "ready"

\* calcReplicas on the list and on the list followed by itself.
CallCalcReplicas ==
    /\ fnPc = "ready"
    /\ result' = [once  |-> calcReplicas(args.components, args.latencyTolerance),
                  twice |-> calcReplicas(args.components \o args.components,
                                         args.latencyTolerance)]
    /\ fnPc' = "returned"
    /\ UNCHANGED <<args, planVars, deployVars>>

NextReplicas == CallCalcReplicas

SpecReplicas == InitReplicas /\ [][NextReplicas]_vars

\* -------------------------------------------------------- normalizeScores

InitNormalize ==
    /\ PlanIdle
    /\ DeployIdle
    /\ args \in { [values |-> v, invert |-> b] :
                     v \in SeqsUpTo((0 - MaxVecVal)..MaxVecVal, MaxVecLen),
                     b \in BOOLEAN }
    /\ result = << >>
    /\ fnPc = "ready"

CallNormalizeScores ==
    /\ fnPc = "ready"
    /\ result' = normalizeScores(args.values, args.invert)
    /\ fnPc' = "returned"
    /\ UNCHANGED <<args, planVars, deployVars>>

NextNormalize == CallNormalizeScores

SpecNormalize == InitNormalize /\ [][NextNormalize]_vars

\* ------------------------------------------------------------- getWeights

\* Strategy arguments: the three of the planner and strings that are none
\* of them.
StrategyArgs ==
    {"max-green", "budget", "balanced", "", "undefined", "green", "cheapest",
     "Balanced", "max_green", "MAX-GREEN"}

ToleranceArgs == Tolerances \cup {"", "undefined"}

InitWeights ==
    /\ PlanIdle
    /\ DeployIdle
    /\ args \in { [strategy |-> s, latencyTolerance |-> t] :
                     s \in StrategyArgs, t \in ToleranceArgs }
    /\ result = << >>
    /\ fnPc = "ready"

CallGetWeights ==
    /\ fnPc = "ready"
    /\ result' = getWeightsCall(args.strategy, args.latencyTolerance)
    /\ fnPc' = "returned"
    /\ UNCHANGED <<args, planVars, deployVars>>

NextWeights == CallGetWeights

SpecWeights == InitWeights /\ [][NextWeights]_vars

\* ------------------------------------- the planner on lists of every size

PlanComponents == {Comp(<<"c">>, ty) : ty \in ComponentTypes}

\* A valid request with no provider key: its six calls returned their
\* fallbacks at once and the handler is about to resume.
InitSizing ==
    /\ apiKeySet = FALSE
    /\ pc = "awaiting"
    /\ req \in {Body("array", cs, "global", t) :
                   cs \in SeqsUpTo(PlanComponents, MaxPlanComps) \ {<< >>},
                   t \in Tolerances \cup {"undefined"}}
    /\ calls = StartCalls(FALSE)
    /\ carbonResults = << >>
    /\ response = NoResponse
    /\ FnIdle
    /\ DeployIdle

NextSizing == PlanResume

SpecSizing == InitSizing /\ [][NextSizing]_vars

\* ------------------------------------------- /api/deploy, /api/analytics

\* A JSON number, or a field that is absent.
Number(n) == [type |-> "number", value |-> n]

Undefined == [type |-> "undefined", value |-> 0]

\* A deploy body.  The empty string stands for a string field that is
\* absent or empty: both are falsy.
DeployBody(planId, region, regionLabel, carbonIntensity, replicas, kubernetesYaml) ==
    [planId |-> planId, region |-> region, regionLabel |-> regionLabel,
     carbonIntensity |-> carbonIntensity, replicas |-> replicas,
     kubernetesYaml |-> kubernetesYaml]

DeployBodies ==
    { DeployBody("max-green", "FRA1", "Frankfurt", Number(210), Number(2), "yaml"),
      DeployBody("budget", "MARS", "", Undefined, Number(0), "yaml"),
      DeployBody("", "FRA1", "Frankfurt", Number(210), Number(2), "yaml"),
      DeployBody("balanced", "LON1", "London", Number(260), Number(1), "") }

\* A validation that does not ask for the manifest.
ValidDeployNoYaml(body) == ~(body.planId = "" \/ body.region = "")

\* !( !planId || !region || !kubernetesYaml )
ValidDeploy(body) ==
    ~(body.planId = "" \/ body.region = "" \/ body.kubernetesYaml = "")

\* The record pushed for a body.  Energy is in thousandths of a kWh, CO2
\* in grams (toFixed(3) of the kilograms; the rounding of a half is not
\* modelled, the bodies used have none), cost in hundredths of a dollar.
\* The timestamp, the scores and the cost in rupees are left out.
DeployRecord(body) ==
    LET safeReplicas == IF body.replicas.type = "number" /\ body.replicas.value > 0
                        THEN body.replicas.value ELSE 1
        ci == IF body.carbonIntensity.type = "number"
              THEN body.carbonIntensity.value ELSE 500
        known == {i \in RegionIdx : REGIONS[i].id = body.region}
        baseCost == IF known = {} THEN 25
                    ELSE REGIONS[CHOOSE i \in known : \A j \in known : i <= j].baseCost
    IN  [planId      |-> body.planId,
         region      |-> body.region,
         regionLabel |-> IF body.regionLabel = "" THEN body.region ELSE body.regionLabel,
         carbonIntensity_gCo2PerKwh |-> ci,
         replicas    |-> safeReplicas,
         estimatedHourlyEnergyKwh |-> safeReplicas * 100,
         estimatedHourlyCO2Kg     |-> (ci * safeReplicas) \div 10,
         estimatedHourlyCostUsd   |-> baseCost * safeReplicas]

Handler(body, st, status, kind) ==
    [body |-> body, st |-> st, status |-> status, kind |-> kind]

\* POST /api/deploy up to its first await: validation, the record pushed
\* on the history, and the start of the temp-file write.
DeployRequest(body) ==
    /\ Len(deploys) < MaxDeploys
    /\ IF ~ValidDeploy(body)
       THEN /\ deploys' = Append(deploys, Handler(body, "done", 400, "invalid"))
            /\ UNCHANGED DEPLOYMENTS_HISTORY
       ELSE /\ DEPLOYMENTS_HISTORY' = Append(DEPLOYMENTS_HISTORY, DeployRecord(body))
            /\ deploys' = Append(deploys, Handler(body, "writing", 0, ""))
    /\ UNCHANGED <<deployEnabled, analytics, planVars, fnVars>>

\* The temp file is written: the dry-run answer, or kubectl is started.
WriteFileDone(i) ==
    /\ deploys[i].st = "writing"
    /\ deploys' = [deploys EXCEPT ![i] =
                     IF ~deployEnabled
                     THEN Handler(deploys[i].body, "done", 200, "dry-run")
                     ELSE Handler(deploys[i].body, "applying", 0, "")]
    /\ UNCHANGED <<deployEnabled, DEPLOYMENTS_HISTORY, analytics, planVars, fnVars>>

\* writeFile rejects: 500.
WriteFileFails(i) ==
    /\ deploys[i].st = "writing"
    /\ deploys' = [deploys EXCEPT ![i] =
                     Handler(deploys[i].body, "done", 500, "write-failed")]
    /\ UNCHANGED <<deployEnabled, DEPLOYMENTS_HISTORY, analytics, planVars, fnVars>>

\* kubectl apply exits with success.
KubectlDone(i) ==
    /\ deploys[i].st = "applying"
    /\ deploys' = [deploys EXCEPT ![i] = Handler(deploys[i].body, "done", 200, "ok")]
    /\ UNCHANGED <<deployEnabled, DEPLOYMENTS_HISTORY, analytics, planVars, fnVars>>

\* kubectl apply fails: 500.
KubectlFails(i) ==
    /\ deploys[i].st = "applying"
    /\ deploys' = [deploys EXCEPT ![i] =
                     Handler(deploys[i].body, "done", 500, "apply-failed")]
    /\ UNCHANGED <<deployEnabled, DEPLOYMENTS_HISTORY, analytics, planVars, fnVars>>

\* GET /api/analytics: the count and the list of the history; the sums and
\* averages over its records are left out.
Analytics ==
    /\ analytics' = [status |-> 200,
                     totalDeployments |-> Len(DEPLOYMENTS_HISTORY),
                     deployments |-> DEPLOYMENTS_HISTORY]
    /\ UNCHANGED <<deployEnabled, DEPLOYMENTS_HISTORY, deploys, planVars, fnVars>>

\* The planning requests made between deploys: one without components and
\* one with.
PlanBodiesBetweenDeploys ==
    { Body("missing", << >>, "undefined", "undefined"),
      Body("array", <<ApiComponent>>, "eu-west", "balanced") }

InitDeploy ==
    /\ PlanIdle
    /\ FnIdle
    /\ deployEnabled \in BOOLEAN
    /\ DEPLOYMENTS_HISTORY = << >>
    /\ deploys = << >>
    /\ analytics = NoAnalytics

NextDeploy ==
    \/ \E body \in PlanBodiesBetweenDeploys : PlanRequest(body)
    \/ PlanResume
    \/ \E body \in DeployBodies : DeployRequest(body)
    \/ \E i \in DOMAIN deploys : WriteFileDone(i)
    \/ \E i \in DOMAIN deploys : WriteFileFails(i)
    \/ \E i \in DOMAIN deploys : KubectlDone(i)
    \/ \E i \in DOMAIN deploys : KubectlFails(i)
    \/ Analytics

SpecDeploy == InitDeploy /\ [][NextDeploy]_vars

\* ================================================================= claims

Responded200 == pc = "responded" /\ response.status = 200

\* The position in the catalog of the region with this id.
IndexOfRegion(id) == CHOOSE i \in RegionIdx : REGIONS[i].id = id

\* The regions' overall scores under strategy k for the request answered.
OverallOf(k) ==
    LET sc == ScoredRegions(
                  RegionScores(carbonResults, Default(req.userRegion, "global")),
                  getWeights(strategies[k], Default(req.latencyTolerance, "balanced")))
    IN  AsSeq([i \in RegionIdx |-> sc[i].overall])

\* C1: the region of every plan has the greatest overall score of the six,
\* and no region before it in the catalog has that score too.
C1_SelectsFirstArgMax ==
    Responded200 =>
        \A k \in DOMAIN strategies :
            LET ov == OverallOf(k)
                sel == IndexOfRegion(response.plans[k].civo.region)
            IN  /\ \A j \in RegionIdx : FracCmp(ov[sel], ov[j]) >= 0
                /\ \A j \in RegionIdx : j < sel => FracCmp(ov[j], ov[sel]) < 0

\* C1 witness: a plan whose region shares the greatest score with a later one.
C1_TieAtMax ==
    /\ Responded200
    /\ \E k \in DOMAIN strategies :
          LET ov == OverallOf(k)
              sel == IndexOfRegion(response.plans[k].civo.region)
          IN  \E j \in RegionIdx : j > sel /\ FracCmp(ov[j], ov[sel]) = 0

\* The component list of the request is absent, empty or no list.
NoComponentList == req.kind \in {"missing", "other"} \/ req.components = << >>

\* C2: a request without a non-empty component list is answered 400 with no
\* plan, no carbon call having been made and nothing having been computed.
C2_InvalidRejected ==
    (pc # "idle" /\ NoComponentList) =>
        /\ pc = "responded"
        /\ response.status = 400
        /\ response.plans = << >>
        /\ \A i \in RegionIdx : calls[i].st = "idle"
        /\ carbonResults = << >>

\* C2 witness: an empty list was rejected.
C2_EmptyListRejected ==
    /\ req.kind = "array" /\ req.components = << >>
    /\ pc = "responded" /\ response.status = 400

\* C3: while the handler awaits, all six calls have been made and nothing is
\* scored; once it has answered, every call had returned, the reading at
\* position i is the one call i returned, and each plan reports the reading
\* of the call made for its region.
C3_FanOutJoin ==
    /\ pc = "awaiting" =>
          /\ \A i \in RegionIdx : calls[i].st # "idle"
          /\ carbonResults = << >>
          /\ response = NoResponse
    /\ Responded200 =>
          /\ \A i \in RegionIdx : calls[i].st = "done"
          /\ Len(carbonResults) = Len(REGIONS)
          /\ \A i \in RegionIdx : carbonResults[i] = calls[i].reading
          /\ \A k \in DOMAIN response.plans :
                LET i == IndexOfRegion(response.plans[k].civo.region)
                IN  /\ response.plans[k].carbonIntensity.value_gCo2PerKwh
                          = calls[i].reading.value
                    /\ response.plans[k].carbonIntensity.source
                          = calls[i].reading.source

\* C3 witness: a request answered from readings that differ by position.
C3_MixedReadingsJoined ==
    /\ Responded200
    /\ carbonResults[1].source = "fallback-static"
    /\ carbonResults[2].source = "electricitymaps"
    /\ carbonResults[3].source = "electricitymaps"
    /\ carbonResults[2].value # carbonResults[3].value

\* C4: a request that awaits its readings is answered in the end.
C4_EventuallyResponds == (pc = "awaiting") ~> (pc = "responded")

\* A region with no zone in REGION_ZONE_MAP.
UnmappedRegion ==
    [id |-> "AMS1", defaultCarbonIntensity |-> 300, baseCost |-> 25, geoGroup |-> "eu"]

\* The readings call i can return.
ReadingsOf(i) ==
    {FallbackReading(REGIONS[i])} \cup {[value |-> v, source |-> "electricitymaps"] : v \in LiveValues}

C5_CallsAbsorbFailures ==
    /\ \A i \in RegionIdx :
          /\ getCarbonIntensityStart(REGIONS[i], FALSE)
                = [st |-> "done", reading |-> FallbackReading(REGIONS[i])]
          /\ \A kind \in FailureKinds :
                getCarbonIntensitySettle(REGIONS[i], [kind |-> kind, ci |-> 0])
                   = [value |-> REGIONS[i].defaultCarbonIntensity,
                      source |-> "fallback-static"]
    /\ \A keySet \in BOOLEAN :
          getCarbonIntensityStart(UnmappedRegion, keySet)
             = [st |-> "done", reading |-> FallbackReading(UnmappedRegion)]
    /\ \A i \in RegionIdx : calls[i].st = "done" => calls[i].reading \in ReadingsOf(i)
    /\ Responded200 =>
          /\ Len(response.plans) = 3
          /\ {response.plans[k].id : k \in 1..3} = {"max-green", "budget", "balanced"}

\* A step in which call i returns leaves the other calls as they were.
C5_OneReadingChanges ==
    \A i \in RegionIdx :
        (pc = "awaiting" /\ pc' = "awaiting" /\ calls'[i] # calls[i]) =>
            \A j \in RegionIdx \ {i} : calls'[j] = calls[j]

\* C5: a call made without a key, for a region without a zone, or whose
\* fetch ends in a network error, a non-success status, a body that is no
\* JSON or a body without a numeric carbon intensity, returns the region's
\* default tagged fallback-static; a call's return changes that call's
\* reading alone, and the request is answered with the three plans.
C5_FailuresDegradeOneRegion ==
    []C5_CallsAbsorbFailures /\ [][C5_OneReadingChanges]_vars

\* C5 witness: with a key, a request answered although FRA1 fell back while
\* LON1 and NYC1 were read live.
C5_AnsweredDespiteFailure ==
    /\ Responded200
    /\ apiKeySet
    /\ carbonResults[2] = FallbackReading(REGIONS[2])
    /\ carbonResults[1].source = "electricitymaps"
    /\ carbonResults[3].source = "electricitymaps"
    /\ Len(response.plans) = 3

\* The source tags of the calls that returned and of the plans sent.
SourceTags ==
    {calls[i].reading.source : i \in {j \in RegionIdx : calls[j].st = "done"}} \cup
    {response.plans[k].carbonIntensity.source : k \in DOMAIN response.plans}

\* C6 as stated: every source tag is live or fallback-static.
C6_TagsLiveOrFallback == SourceTags \subseteq {"live", "fallback-static"}

\* C6 amended: every source tag is electricitymaps or fallback-static, and
\* a reading whose value came from the provider is tagged electricitymaps.
C6_TagsElectricityMapsOrFallback ==
    /\ SourceTags \subseteq {"electricitymaps", "fallback-static"}
    /\ \A i \in RegionIdx : \A v \in LiveValues :
          getCarbonIntensitySettle(REGIONS[i], [kind |-> "number", ci |-> v])
             = [value |-> v, source |-> "electricitymaps"]

\* C6 witness: a plan sent with a reading the provider gave.
C6_PlanWithProviderReading ==
    /\ Responded200
    /\ \E k \in DOMAIN response.plans :
          /\ response.plans[k].carbonIntensity.source = "electricitymaps"
          /\ response.plans[k].carbonIntensity.value_gCo2PerKwh \in LiveValues

\* The positions of the runtime components of a list, and the k-th of them.
RuntimeIdx(cs) ==
    {i \in DOMAIN cs : cs[i].type \in {"api-gateway", "frontend", "container", "function"}}

NthRuntime(cs, k) ==
    cs[CHOOSE i \in RuntimeIdx(cs) : Cardinality({j \in RuntimeIdx(cs) : j <= i}) = k]

\* The workload-unit name of a component: lower-cased, every character
\* outside [a-z0-9-] replaced by "-", "service" when nothing is left.
UnitName(comp) ==
    LET low == [i \in DOMAIN comp.name |->
                   CASE comp.name[i] = "A" -> "a"
                     [] comp.name[i] = "B" -> "b"
                     [] comp.name[i] = "Z" -> "z"
                     [] OTHER -> comp.name[i]]
        out == [i \in DOMAIN low |-> IF low[i] \in SafeChars THEN low[i] ELSE "-"]
    IN  IF Len(comp.name) = 0 THEN <<"s", "e", "r", "v", "i", "c", "e">> ELSE AsSeq(out)

\* The component the exposed service is bound to.
ServiceTarget(cs) ==
    LET gw == {i \in RuntimeIdx(cs) : cs[i].type = "api-gateway"}
        first(S) == CHOOSE i \in S : \A j \in S : i <= j
    IN  IF gw # {} THEN cs[first(gw)] ELSE cs[first(RuntimeIdx(cs))]

ServiceBlocks(manifest) == SelectSeq(manifest, LAMBDA b : b.kind = "Service")

\* C7: with a runtime component the manifest has exactly one service block,
\* whose selector is the workload-unit name of the api-gateway component,
\* or of the first runtime component when there is none; without a runtime
\* component it has no service block.
C7_OneServiceBoundToGateway ==
    fnPc = "returned" =>
        IF RuntimeIdx(args.components) = {}
        THEN ServiceBlocks(result) = << >>
        ELSE /\ Len(ServiceBlocks(result)) = 1
             /\ ServiceBlocks(result)[1].selector = UnitName(ServiceTarget(args.components))

\* C8: the manifest is the namespace block labelled with the plan id, then
\* one workload unit per runtime component in input order, each with the
\* replica count, the plan id, the region id and the instance class, and
\* after them at most a service block; without a runtime component it is
\* the namespace block alone.
C8_NamespaceThenUnits ==
    fnPc = "returned" =>
        LET n == Cardinality(RuntimeIdx(args.components))
        IN  /\ Len(result) >= 1
            /\ result[1].kind = "Namespace"
            /\ result[1].plan = args.planId
            /\ \A i \in 2..Len(result) : result[i].kind # "Namespace"
            /\ Len(SelectSeq(result, LAMBDA b : b.kind = "Deployment")) = n
            /\ Len(result) >= n + 1
            /\ \A k \in 1..n :
                  /\ result[k + 1].kind = "Deployment"
                  /\ result[k + 1].name = UnitName(NthRuntime(args.components, k))
                  /\ result[k + 1].replicas = args.replicas
                  /\ result[k + 1].plan = args.planId
                  /\ result[k + 1].env.GREENOPS_PLAN_ID = args.planId
                  /\ result[k + 1].env.GREENOPS_REGION = args.regionId
                  /\ result[k + 1].env.GREENOPS_INSTANCE_CLASS = args.instanceClass
            /\ \A i \in (n + 2)..Len(result) : result[i].kind = "Service"
            /\ n = 0 => result = <<[kind |-> "Namespace", name |-> "greenops-app",
                                    plan |-> args.planId]>>

\* C8 witness: a runtime component that follows a non-runtime one.
C8_RuntimeAfterOther ==
    /\ fnPc = "returned"
    /\ Len(args.components) = 2
    /\ RuntimeIdx(args.components) = {2}
    /\ Len(result) = 3

\* ceil(r / 2)
CeilOfHalf(r) == CHOOSE q \in 0..r : 2 * q >= r /\ 2 * q < r + 2

\* min(4, max(1, ceil(r/2)) + (1 if strict and r > 1 else 0))
ReplicaFormula(r, tolerance) ==
    LET base == IF CeilOfHalf(r) < 1 THEN 1 ELSE CeilOfHalf(r)
        sum == base + (IF tolerance = "strict" /\ r > 1 THEN 1 ELSE 0)
    IN  IF sum > 4 THEN 4 ELSE sum

\* C9: the replica count is an integer from 1 to 4, equal to
\* min(4, max(1, ceil(r/2)) + (1 if strict and r > 1 else 0)) for r runtime
\* components, and the count for 2r runtime components is not below it.
C9_ReplicaCount ==
    fnPc = "returned" =>
        LET r == Cardinality(RuntimeIdx(args.components))
        IN  /\ result.once \in 1..4
            /\ result.once = ReplicaFormula(r, args.latencyTolerance)
            /\ result.twice \in 1..4
            /\ result.twice = ReplicaFormula(2 * r, args.latencyTolerance)
            /\ result.twice >= result.once

\* C9 witness: five runtime components under strict tolerance give 4.
C9_FiveStrict ==
    /\ fnPc = "returned"
    /\ Cardinality(RuntimeIdx(args.components)) = 5
    /\ args.latencyTolerance = "strict"
    /\ result.once = 4

InputMin == SeqMin(args.values)

InputMax == SeqMax(args.values)

IsZero(f) == f.n = 0 /\ f.d > 0

IsOne(f) == f.n = f.d /\ f.d > 0

\* C10: the scores are as many as the values and lie in [0,1]; equal values
\* all score 0.7; otherwise the smallest value scores 0 and the largest 1,
\* and the other way round when inverted; no values, no scores.
C10_NormalizedScores ==
    fnPc = "returned" =>
        /\ Len(result) = Len(args.values)
        /\ \A i \in DOMAIN result :
              result[i].d > 0 /\ 0 <= result[i].n /\ result[i].n <= result[i].d
        /\ (Len(args.values) > 0 /\ InputMin = InputMax) =>
              \A i \in DOMAIN result : 10 * result[i].n = 7 * result[i].d
        /\ (Len(args.values) > 0 /\ InputMin # InputMax) =>
              \A i \in DOMAIN result :
                  /\ args.values[i] = InputMin =>
                        IF args.invert THEN IsOne(result[i]) ELSE IsZero(result[i])
                  /\ args.values[i] = InputMax =>
                        IF args.invert THEN IsZero(result[i]) ELSE IsOne(result[i])

\* C10 witness: an inverted vector of three different values.
C10_InvertedSpread ==
    /\ fnPc = "returned"
    /\ args.invert
    /\ Len(args.values) = 3
    /\ args.values[1] < args.values[2] /\ args.values[2] < args.values[3]
    /\ IsOne(result[1]) /\ IsZero(result[3])

\* The plan of the response with this id.
PlansWithId(id) == {k \in DOMAIN response.plans : response.plans[k].id = id}

\* C11: a successful planning response holds exactly three plans, one for
\* each of max-green, budget and balanced; all three carry the replica
\* count computed from the request's components and tolerance; max-green
\* has class eco-small, budget standard-small, balanced standard-medium.
C11_ThreePlans ==
    Responded200 =>
        LET plans == response.plans
            r == Cardinality(RuntimeIdx(req.components))
            tolerance == IF req.latencyTolerance = "undefined"
                         THEN "balanced" ELSE req.latencyTolerance
        IN  /\ Len(plans) = 3
            /\ \A id \in {"max-green", "budget", "balanced"} :
                  Cardinality(PlansWithId(id)) = 1
            /\ \A k \in DOMAIN plans :
                  /\ plans[k].civo.replicas = ReplicaFormula(r, tolerance)
                  /\ plans[k].id = "max-green" =>
                        plans[k].civo.instanceClass = "eco-small"
                  /\ plans[k].id = "budget" =>
                        plans[k].civo.instanceClass = "standard-small"
                  /\ plans[k].id = "balanced" =>
                        plans[k].civo.instanceClass = "standard-medium"

\* Three runtime components under strict tolerance: three plans of three
\* replicas each.
C11_ThreePlansOfThreeReplicas ==
    /\ Responded200
    /\ req.latencyTolerance = "strict"
    /\ Cardinality(RuntimeIdx(req.components)) = 3
    /\ \A k \in 1..3 : response.plans[k].civo.replicas = 3

\* The scenario of one api-gateway component, affinity eu-west, tolerance
\* balanced, answered.
GatewayInEuWest ==
    /\ Responded200
    /\ Len(req.components) = 1
    /\ req.components[1].type = "api-gateway"
    /\ req.userRegion = "eu-west"
    /\ req.latencyTolerance = "balanced"

MaxGreenPlan == response.plans[CHOOSE k \in DOMAIN response.plans :
                                  response.plans[k].id = "max-green"]

\* The overall scores of the six regions under 0.60 carbon, 0.25 latency
\* and 0.15 cost, for affinity eu-west.
GreenOverall ==
    LET rs == RegionScores(carbonResults, "eu-west")
    IN  AsSeq([i \in RegionIdx |->
                  Overall(rs[i], [co2 |-> 60, latency |-> 25, cost |-> 15, sum |-> 100])])

AllFallback == \A i \in RegionIdx : carbonResults[i].source = "fallback-static"

\* C12 as stated: in the scenario the replica count is 1 and, whatever
\* mix of live and fallback readings the six regions have, the max-green
\* plan has class eco-small and selects a region whose carbon reading is
\* the lowest of the six.
C12_MaxGreenSelectsLowestCarbon ==
    GatewayInEuWest =>
        /\ MaxGreenPlan.civo.replicas = 1
        /\ MaxGreenPlan.civo.instanceClass = "eco-small"
        /\ \A i \in RegionIdx :
              MaxGreenPlan.carbonIntensity.value_gCo2PerKwh <= carbonResults[i].value

\* C12 amended: in the scenario the replica count is 1 and the max-green
\* plan has class eco-small and selects the first catalog region with the
\* greatest overall score under weights 0.60 carbon, 0.25 latency and 0.15
\* cost; when all six readings are the fallbacks that region is FRA1, the
\* one with the lowest reading.
C12_MaxGreenSelectsBestWeighted ==
    GatewayInEuWest =>
        LET ov == GreenOverall
            sel == IndexOfRegion(MaxGreenPlan.civo.region)
        IN  /\ MaxGreenPlan.civo.replicas = 1
            /\ MaxGreenPlan.civo.instanceClass = "eco-small"
            /\ \A j \in RegionIdx : FracCmp(ov[sel], ov[j]) >= 0
            /\ \A j \in RegionIdx : j < sel => FracCmp(ov[j], ov[sel]) < 0
            /\ AllFallback =>
                  /\ MaxGreenPlan.civo.region = "FRA1"
                  /\ \A i \in RegionIdx :
                        MaxGreenPlan.carbonIntensity.value_gCo2PerKwh
                            <= carbonResults[i].value

\* In the scenario, max-green selects a region although another region's
\* reading is lower by more than any rounding could hide.
C12_LowerCarbonPassedOver ==
    /\ GatewayInEuWest
    /\ MaxGreenPlan.civo.region = "LON1"
    /\ carbonResults[1].value = 101
    /\ carbonResults[4].value = 100
    /\ \A i \in RegionIdx \ {1, 4} : carbonResults[i].value = 118

UnknownStrategy == args.strategy \notin {"max-green", "budget", "balanced"}

BalancedWeights(tolerance) ==
    CASE tolerance = "strict"  -> [co2 |-> 306, latency |-> 396, cost |-> 297, sum |-> 999]
      [] tolerance = "relaxed" -> [co2 |-> 374, latency |-> 231, cost |-> 363, sum |-> 968]
      [] OTHER                 -> [co2 |-> 340, latency |-> 330, cost |-> 330, sum |-> 1000]

ValidatedIdx ==
    {i \in DOMAIN deploys :
        /\ deploys[i].body.planId # ""
        /\ deploys[i].body.region # ""
        /\ deploys[i].body.kubernetesYaml # ""}

NthValidated(k) ==
    deploys[CHOOSE i \in ValidatedIdx : Cardinality({j \in ValidatedIdx : j <= i}) = k]

\* The history holds one record per validated deploy request, in arrival
\* order, whatever became of the request afterwards.
C14_OneRecordPerValidated ==
    /\ Len(DEPLOYMENTS_HISTORY) = Cardinality(ValidatedIdx)
    /\ \A k \in DOMAIN DEPLOYMENTS_HISTORY :
          /\ DEPLOYMENTS_HISTORY[k].planId = NthValidated(k).body.planId
          /\ DEPLOYMENTS_HISTORY[k].region = NthValidated(k).body.region

\* A step changes the history only by appending one record, and only when
\* a validated deploy request arrives; an analytics answer reports as
\* totalDeployments the number of validated deploy requests so far.
C14_OnlyValidatedArrivalsAppend ==
    /\ DEPLOYMENTS_HISTORY' # DEPLOYMENTS_HISTORY =>
          /\ Len(deploys') = Len(deploys) + 1
          /\ Len(deploys') \in ValidatedIdx'
          /\ SubSeq(DEPLOYMENTS_HISTORY', 1, Len(DEPLOYMENTS_HISTORY)) = DEPLOYMENTS_HISTORY
          /\ Len(DEPLOYMENTS_HISTORY') = Len(DEPLOYMENTS_HISTORY) + 1
    /\ analytics' # analytics =>
          /\ analytics'.totalDeployments = Cardinality(ValidatedIdx)
          /\ DEPLOYMENTS_HISTORY' = DEPLOYMENTS_HISTORY

\* C14: after any sequence of plan, deploy and analytics requests the
\* history holds exactly one record per deploy request that had planId,
\* region and kubernetesYaml, in arrival order, also when its temp-file
\* write or cluster apply failed later; every other request leaves the
\* history as it is and no record is removed or changed; analytics
\* totalDeployments is the number of validated deploy requests so far.
C14_HistoryIsValidatedDeploys ==
    []C14_OneRecordPerValidated /\ [][C14_OnlyValidatedArrivalsAppend]_vars

\* A deploy whose write failed, a rejected one and a deploy whose apply
\* failed, with a planning request answered and analytics reporting two.
C14_FailedDeploysRecorded ==
    /\ Len(deploys) = 3
    /\ deploys[1].kind = "write-failed"
    /\ deploys[2].kind = "invalid"
    /\ deploys[3].kind = "apply-failed"
    /\ Len(DEPLOYMENTS_HISTORY) = 2
    /\ DEPLOYMENTS_HISTORY[1].planId = deploys[1].body.planId
    /\ DEPLOYMENTS_HISTORY[2].planId = deploys[3].body.planId
    /\ deploys[1].body.planId # deploys[3].body.planId
    /\ Responded200
    /\ analytics.status = 200
    /\ analytics.totalDeployments = 2

====
